---- MODULE Spec2Model ----
(***************************************************************************)
(* Tic-tac-toe finite state machine (main.ts).                             *)
(*                                                                         *)
(* The model follows one run of the program: the driver loop calls         *)
(* FiniteStateMachine.transition() again and again; transition() suspends  *)
(* at `await getSelection(...)` until the readline callback resolves the   *)
(* promise.  Boards are heap objects: a state holds a reference to a board *)
(* and updateBoard writes into the object it was given.                    *)
(*                                                                         *)
(* printBoard only writes to the terminal and is left out; console.error   *)
(* (stderr), the outcome line of terminate (reports) and the exit status   *)
(* are kept.                                                               *)
(***************************************************************************)
EXTENDS Integers, Sequences, FiniteSets, TLC

VARIABLES
    state,      \* FiniteStateMachine.state (a TicTacToeState)
    heap,       \* the Board objects allocated so far; a Board reference is an index
    pc,         \* where the single flow of control is
    line,       \* the line handed to the rl.question callback (while pc = "callback")
    at,         \* the value the getSelection promise was resolved with (while pc = "resumed")
    stderr,     \* the console.error messages written so far
    reports,    \* the outcome lines written by terminate
    exitCode    \* <<>> while the process runs, <<code>> once it has ended

vars == <<state, heap, pc, line, at, stderr, reports, exitCode>>

-----------------------------------------------------------------------------
(* Bounds *)

\* At most this many console.error messages are produced in one run.
MaxErrors == 2

-----------------------------------------------------------------------------
(* Types of main.ts *)

Null == "null"
Undefined == "undefined"

Player == {"X", "O"}
Square == {Null} \cup Player
Draw == Undefined

Board == [1..3 -> [1..3 -> Square]]

\* board[y][x] with the source's 0-based indices
Cell(board, y, x) == board[y + 1][x + 1]

newBoard ==
    << <<Null, Null, Null>>,
       <<Null, Null, Null>>,
       <<Null, Null, Null>> >>

\* JavaScript numbers as far as the program meets them: an integer or NaN.
Int_(n) == [kind |-> "int", val |-> n]
NaN == [kind |-> "NaN", val |-> 0]
NoValue == [kind |-> "unset", val |-> 0]

\* `a < b` and `a > b` of JavaScript: every comparison with NaN is false.
LessThan(a, n) == a.kind = "int" /\ a.val < n
GreaterThan(a, n) == a.kind = "int" /\ a.val > n

\* The values of TicTacToeState.
Initializing == [tag |-> "initializing"]
Placing(player, on) == [tag |-> "placing", player |-> player, on |-> on]
Evaluating(board, after) == [tag |-> "evaluating", board |-> board, after |-> after]
WinnerState(won, on) == [tag |-> "winner", won |-> won, on |-> on]

-----------------------------------------------------------------------------
(* Win scans *)

RowWinsTwoCells(board, i) ==
    Cell(board, i, 0) = Cell(board, i, 1) /\ Cell(board, i, 0) # Null

hasWinnerHorizontalTwoCells(board) ==
    IF RowWinsTwoCells(board, 0) THEN Cell(board, 0, 0)
    ELSE IF RowWinsTwoCells(board, 1) THEN Cell(board, 1, 0)
    ELSE IF RowWinsTwoCells(board, 2) THEN Cell(board, 2, 0)
    ELSE Null

\* The loop body's test for row i: col1 == col2 && col2 == col3 && col1 != null
RowWins(board, i) ==
    /\ Cell(board, i, 0) = Cell(board, i, 1)
    /\ Cell(board, i, 1) = Cell(board, i, 2)
    /\ Cell(board, i, 0) # Null

\* for i = 0, 1, 2: the first row that passes the test returns its symbol
hasWinnerHorizontal(board) ==
    IF RowWins(board, 0) THEN Cell(board, 0, 0)
    ELSE IF RowWins(board, 1) THEN Cell(board, 1, 0)
    ELSE IF RowWins(board, 2) THEN Cell(board, 2, 0)
    ELSE Null

ColumnWinsTwoCells(board, i) ==
    Cell(board, 0, i) = Cell(board, 1, i) /\ Cell(board, 0, i) # Null

hasWinnerVerticalTwoCells(board) ==
    IF ColumnWinsTwoCells(board, 0) THEN Cell(board, 0, 0)
    ELSE IF ColumnWinsTwoCells(board, 1) THEN Cell(board, 0, 1)
    ELSE IF ColumnWinsTwoCells(board, 2) THEN Cell(board, 0, 2)
    ELSE Null

\* The loop body's test for column i
ColumnWins(board, i) ==
    /\ Cell(board, 0, i) = Cell(board, 1, i)
    /\ Cell(board, 1, i) = Cell(board, 2, i)
    /\ Cell(board, 0, i) # Null

hasWinnerVertical(board) ==
    IF ColumnWins(board, 0) THEN Cell(board, 0, 0)
    ELSE IF ColumnWins(board, 1) THEN Cell(board, 0, 1)
    ELSE IF ColumnWins(board, 2) THEN Cell(board, 0, 2)
    ELSE Null

hasWinnerDiagonalReturnsTopL(board) ==
    LET topL   == Cell(board, 0, 0)
        topR   == Cell(board, 0, 2)
        origin == Cell(board, 1, 1)
        botR   == Cell(board, 2, 2)
        botL   == Cell(board, 2, 0)
    IN  IF topL = origin /\ origin = botR /\ topL # Null THEN topL
        ELSE IF topR = origin /\ origin = botL /\ topL # Null THEN topL
        ELSE Null

\* The second test guards the anti-diagonal with topL, as the source does; it
\* returns topR, which is null when the three anti-diagonal cells are empty.
hasWinnerDiagonal(board) ==
    LET topL   == Cell(board, 0, 0)
        topR   == Cell(board, 0, 2)
        origin == Cell(board, 1, 1)
        botR   == Cell(board, 2, 2)
        botL   == Cell(board, 2, 0)
    IN  IF topL = origin /\ origin = botR /\ topL # Null THEN topL
        ELSE IF topR = origin /\ origin = botL /\ topL # Null THEN topR
        ELSE Null

-----------------------------------------------------------------------------
(* Board queries and update *)

\* The switch has no default: any other value falls out of it and the
\* function returns undefined (undefined |-> TRUE).
getPosition(from) ==
    IF from.kind = "int" /\ from.val \in 1..9
    THEN CASE from.val = 1 -> [undefined |-> FALSE, y |-> 0, x |-> 0]
           [] from.val = 2 -> [undefined |-> FALSE, y |-> 0, x |-> 1]
           [] from.val = 3 -> [undefined |-> FALSE, y |-> 0, x |-> 2]
           [] from.val = 4 -> [undefined |-> FALSE, y |-> 1, x |-> 0]
           [] from.val = 5 -> [undefined |-> FALSE, y |-> 1, x |-> 1]
           [] from.val = 6 -> [undefined |-> FALSE, y |-> 1, x |-> 2]
           [] from.val = 7 -> [undefined |-> FALSE, y |-> 2, x |-> 0]
           [] from.val = 8 -> [undefined |-> FALSE, y |-> 2, x |-> 1]
           [] from.val = 9 -> [undefined |-> FALSE, y |-> 2, x |-> 2]
    ELSE [undefined |-> TRUE, y |-> 0, x |-> 0]

isEmptyAlways(board, space) == TRUE

\* Reading point.y of undefined throws; updateBoard models that case before
\* it uses isEmpty, so here the space is one getPosition maps.
isEmpty(board, space) ==
    LET point == getPosition(space)
    IN  Cell(board, point.y, point.x) = Null

isBoardFullAnyClaimed(board) ==
    \E y \in 0..2, x \in 0..2 : Cell(board, y, x) # Null

isBoardFullNever(board) == FALSE

\* full stays true unless some cell is null
isBoardFull(board) ==
    ~ \E y \in 0..2, x \in 0..2 : Cell(board, y, x) = Null

SetCellTransposed(board, y, x, symbol) ==
    [board EXCEPT ![x + 1][y + 1] = symbol]

\* updated[point.y][point.x] = symbol
SetCell(board, y, x, symbol) ==
    [board EXCEPT ![y + 1][x + 1] = symbol]

updateBoardNoCheck(symbol, space, on, h) ==
    LET point == getPosition(space)
    IN  IF point.undefined
        THEN [threw |-> TRUE, error |-> FALSE, board |-> on, heap |-> h]
        ELSE [threw |-> FALSE, error |-> FALSE, board |-> on,
              heap |-> [h EXCEPT ![on] = SetCell(h[on], point.y, point.x, symbol)]]

\* updateBoard(symbol, at, on) on the heap h.  `updated = on` is the same
\* object, so the write goes into the board the caller passed:
\*   threw: isEmpty read point.y of undefined (TypeError);
\*   error: the { error: ... } value was returned;
\*   board: the reference returned; heap: the heap afterwards.
updateBoard(symbol, space, on, h) ==
    LET point == getPosition(space)
    IN  IF point.undefined
        THEN [threw |-> TRUE, error |-> FALSE, board |-> on, heap |-> h]
        ELSE IF ~isEmpty(h[on], space)
        THEN [threw |-> FALSE, error |-> TRUE, board |-> on, heap |-> h]
        ELSE [threw |-> FALSE, error |-> FALSE, board |-> on,
              heap |-> [h EXCEPT ![on] = SetCell(h[on], point.y, point.x, symbol)]]

-----------------------------------------------------------------------------
(* Evaluation *)

OpponentSame(after) == IF after = "X" THEN "X" ELSE "O"

Opponent(after) == IF after = "X" THEN "O" ELSE "X"

evaluateDrawFirst(board, after, h) ==
    LET vert == hasWinnerVertical(h[board])
        hori == hasWinnerHorizontal(h[board])
        diag == hasWinnerDiagonal(h[board])
    IN  IF isBoardFull(h[board]) THEN WinnerState(Draw, board)
        ELSE IF vert # Null THEN WinnerState(vert, board)
        ELSE IF hori # Null THEN WinnerState(hori, board)
        ELSE IF diag # Null THEN WinnerState(diag, board)
        ELSE Placing(IF after = "X" THEN "O" ELSE "X", board)

evaluateSamePlayer(board, after, h) ==
    LET vert == hasWinnerVertical(h[board])
        hori == hasWinnerHorizontal(h[board])
        diag == hasWinnerDiagonal(h[board])
    IN  IF vert # Null THEN WinnerState(vert, board)
        ELSE IF hori # Null THEN WinnerState(hori, board)
        ELSE IF diag # Null THEN WinnerState(diag, board)
        ELSE IF isBoardFull(h[board]) THEN WinnerState(Draw, board)
        ELSE Placing(after, board)

\* evaluate(board, after), board being a reference into the heap h.
\* `if (vert)` is JavaScript truthiness: "X" and "O" pass, null does not.
evaluate(board, after, h) ==
    LET vert == hasWinnerVertical(h[board])
        hori == hasWinnerHorizontal(h[board])
        diag == hasWinnerDiagonal(h[board])
    IN  IF vert # Null THEN WinnerState(vert, board)
        ELSE IF hori # Null THEN WinnerState(hori, board)
        ELSE IF diag # Null THEN WinnerState(diag, board)
        ELSE IF isBoardFull(h[board]) THEN WinnerState(Draw, board)
        ELSE Placing(Opponent(after), board)

-----------------------------------------------------------------------------
(* Player input *)

DigitChars == {"0", "1", "2", "3", "4", "5", "6", "7", "8", "9"}

DigitValue(c) ==
    CASE c = "0" -> 0 [] c = "1" -> 1 [] c = "2" -> 2 [] c = "3" -> 3
      [] c = "4" -> 4 [] c = "5" -> 5 [] c = "6" -> 6 [] c = "7" -> 7
      [] c = "8" -> 8 [] c = "9" -> 9

RECURSIVE TrimStart(_)
TrimStart(s) ==
    IF s # <<>> /\ Head(s) = " " THEN TrimStart(Tail(s)) ELSE s

\* The longest prefix of decimal digits, read as a number; NaN when there is none.
RECURSIVE ParseDigits(_, _, _)
ParseDigits(s, acc, seen) ==
    IF s # <<>> /\ Head(s) \in DigitChars
    THEN ParseDigits(Tail(s), acc * 10 + DigitValue(Head(s)), TRUE)
    ELSE IF seen THEN Int_(acc) ELSE NaN

\* parseInt(input) without a radix, on lines of spaces, signs, digits and
\* letters: leading white space is skipped, one sign is read, then the digits;
\* whatever follows the digits is ignored.
parseInt(input) ==
    LET t      == TrimStart(input)
        signed == t # <<>> /\ Head(t) \in {"+", "-"}
        digits == ParseDigits(IF signed THEN Tail(t) ELSE t, 0, FALSE)
    IN  IF digits.kind = "int" /\ signed /\ Head(t) = "-"
        THEN Int_(0 - digits.val)
        ELSE digits

\* The lines a player types in this model.
Lines ==
    { <<>>, <<" ">>, <<"a">>,
      <<"0">>, <<"1">>, <<"2">>, <<"3">>, <<"4">>, <<"5">>, <<"6">>, <<"7">>,
      <<"8">>, <<"9">>,
      <<"1", "0">>, <<"-", "1">>, <<" ", "5">>, <<"7", "a">> }

\* The two console.error messages; the space number the second one quotes
\* is not kept.
RangeMessage == "Selection must be an integer in range 1 - 9"
OccupiedMessage == "Can't update non-empty space, it is already occupied."

getSelectionLowerBoundZero(input) ==
    IF input = <<>>
    THEN [outcome |-> "ignored", value |-> NoValue]
    ELSE LET parsed == parseInt(input)
         IN  IF LessThan(parsed, 0) \/ GreaterThan(parsed, 9)
             THEN [outcome |-> "error", value |-> NoValue]
             ELSE [outcome |-> "resolve", value |-> parsed]

\* The body of the rl.question callback of getSelection:
\*   "ignored": `if (input)` failed, nothing is done;
\*   "error"  : the range test threw, the catch wrote the message;
\*   "resolve": resolve(parsed) was called.
\* In the first two the promise is never resolved.
getSelection(input) ==
    IF input = <<>>
    THEN [outcome |-> "ignored", value |-> NoValue]
    ELSE LET parsed == parseInt(input)
         IN  IF LessThan(parsed, 1) \/ GreaterThan(parsed, 9)
             THEN [outcome |-> "error", value |-> NoValue]
             ELSE [outcome |-> "resolve", value |-> parsed]

-----------------------------------------------------------------------------
(* The program *)

\* `new FiniteStateMachine()`; the driver is about to call transition().
Init ==
    /\ state = Initializing
    /\ heap = <<>>
    /\ pc = "driver"
    /\ line = <<>>
    /\ at = NoValue
    /\ stderr = <<>>
    /\ reports = <<>>
    /\ exitCode = <<>>

\* The board a state refers to.
BoardRef(s) == IF s.tag = "evaluating" THEN s.board ELSE s.on

\* transition() called in Initializing: the state becomes Placing(X, newBoard())
\* and, the first `if` having no return, control goes on into the "placing"
\* branch, which prints the board and suspends in getSelection("X").
TransitionInitializing ==
    /\ pc = "driver"
    /\ state.tag = "initializing"
    /\ heap' = Append(heap, newBoard)
    /\ state' = Placing("X", Len(heap) + 1)
    /\ pc' = "question"
    /\ UNCHANGED <<line, at, stderr, reports, exitCode>>

\* transition() called in Placing: prints the board and suspends in getSelection.
TransitionPlacing ==
    /\ pc = "driver"
    /\ state.tag = "placing"
    /\ pc' = "question"
    /\ UNCHANGED <<state, heap, line, at, stderr, reports, exitCode>>

\* Whether typing l now ends in a console.error.
Reported(l) ==
    LET sel == getSelection(l)
    IN  \/ sel.outcome = "error"
        \/ /\ sel.outcome = "resolve"
           /\ updateBoard(state.player, sel.value, state.on, heap).error

\* The player answers the outstanding rl.question with a line.
TypeLine ==
    /\ pc = "question"
    /\ \E l \in Lines :
          /\ Reported(l) => Len(stderr) < MaxErrors
          /\ line' = l
    /\ pc' = "callback"
    /\ UNCHANGED <<state, heap, at, stderr, reports, exitCode>>

\* The rl.question callback runs on the line.  Unless it resolves the promise,
\* transition() stays suspended on a promise nothing will settle and no
\* question is outstanding (pc = "hung").
QuestionCallback ==
    /\ pc = "callback"
    /\ LET sel == getSelection(line)
       IN  /\ pc' = IF sel.outcome = "resolve" THEN "resumed" ELSE "hung"
           /\ at' = sel.value
           /\ stderr' = IF sel.outcome = "error"
                        THEN Append(stderr, RangeMessage) ELSE stderr
    /\ line' = <<>>
    /\ UNCHANGED <<state, heap, reports, exitCode>>

\* transition() resumes after the await with the selection `at`:
\* updateBoard throws (the rejection reaches the top-level await and ends the
\* process), or returns an error (message, `continue`, a new question), or
\* returns the board, and the state becomes Evaluating.
PlacingResume ==
    /\ pc = "resumed"
    /\ LET update == updateBoard(state.player, at, state.on, heap)
       IN  IF update.threw
           THEN /\ pc' = "crashed"
                /\ exitCode' = <<1>>
                /\ UNCHANGED <<state, heap, stderr>>
           ELSE IF update.error
           THEN /\ stderr' = Append(stderr, OccupiedMessage)
                /\ pc' = "question"
                /\ UNCHANGED <<state, heap, exitCode>>
           ELSE /\ heap' = update.heap
                /\ state' = Evaluating(update.board, state.player)
                /\ pc' = "driver"
                /\ UNCHANGED <<stderr, exitCode>>
    /\ at' = NoValue
    /\ UNCHANGED <<line, reports>>

\* transition() called in Evaluating.
TransitionEvaluating ==
    /\ pc = "driver"
    /\ state.tag = "evaluating"
    /\ state' = evaluate(state.board, state.after, heap)
    /\ UNCHANGED <<heap, pc, line, at, stderr, reports, exitCode>>

terminateSwapped(winner) ==
    IF winner # Undefined
    THEN IF winner = "O" THEN "Player 1 wins!" ELSE "Player 2 wins!"
    ELSE "Draw! Nobody wins"

\* The line terminate(winner, on) logs before process.exit(0).
terminate(winner) ==
    IF winner # Undefined
    THEN IF winner = "X" THEN "Player 1 wins!" ELSE "Player 2 wins!"
    ELSE "Draw! Nobody wins"

TransitionWinnerRestarts ==
    /\ pc = "driver"
    /\ state.tag = "winner"
    /\ reports' = Append(reports, "Draw! Nobody wins")
    /\ state' = [tag |-> "initializing"]
    /\ UNCHANGED <<heap, pc, line, at, stderr, exitCode>>

\* transition() called in Winner: terminate prints, reports and exits.
TransitionWinner ==
    /\ pc = "driver"
    /\ state.tag = "winner"
    /\ reports' = Append(reports, terminate(state.won))
    /\ exitCode' = <<0>>
    /\ pc' = "exited"
    /\ UNCHANGED <<state, heap, line, at, stderr>>

Next ==
    \/ TransitionInitializing
    \/ TransitionPlacing
    \/ TypeLine
    \/ QuestionCallback
    \/ PlacingResume
    \/ TransitionEvaluating
    \/ TransitionWinner

Spec == Init /\ [][Next]_vars

-----------------------------------------------------------------------------
(* The game with players who supply valid selections only: every line     *)
(* typed reads as an integer in 1..9 whose cell is empty.  The steps of the *)
(* program itself (the driver loop calling transition(), the readline       *)
(* callback, the resumption after the await) run whenever they can; when a  *)
(* player answers is up to the player.                                      *)

TypeSpace ==
    /\ pc = "question"
    /\ \E l \in Lines :
          /\ getSelection(l).outcome = "resolve"
          /\ ~updateBoard(state.player, getSelection(l).value, state.on, heap).threw
          /\ ~updateBoard(state.player, getSelection(l).value, state.on, heap).error
          /\ line' = l
    /\ pc' = "callback"
    /\ UNCHANGED <<state, heap, at, stderr, reports, exitCode>>

NextValid ==
    \/ TransitionInitializing
    \/ TransitionPlacing
    \/ TypeSpace
    \/ QuestionCallback
    \/ PlacingResume
    \/ TransitionEvaluating
    \/ TransitionWinner

ProgramStep ==
    \/ TransitionInitializing
    \/ TransitionPlacing
    \/ QuestionCallback
    \/ PlacingResume
    \/ TransitionEvaluating
    \/ TransitionWinner

SpecValid == Init /\ [][NextValid]_vars /\ WF_vars(ProgramStep)

-----------------------------------------------------------------------------
(* evaluate on every board: the state machine is put in Evaluating{board,  *)
(* after} for any 3x3 board and either player, and takes its one step.     *)

InitEval ==
    /\ \E b \in Board, p \in Player :
          /\ heap = <<b>>
          /\ state = Evaluating(1, p)
    /\ pc = "driver"
    /\ line = <<>>
    /\ at = NoValue
    /\ stderr = <<>>
    /\ reports = <<>>
    /\ exitCode = <<>>

NextEval == TransitionEvaluating

SpecEval == InitEval /\ [][NextEval]_vars

-----------------------------------------------------------------------------
(* Notions the properties are stated in *)

TheBoard == heap[BoardRef(state)]

Claimed(board) ==
    Cardinality({c \in (0..2) \X (0..2) : Cell(board, c[1], c[2]) # Null})

\* The eight lines of the grid, as sets of (y, x).
AllLines ==
    { {<<i, 0>>, <<i, 1>>, <<i, 2>>} : i \in 0..2 } \cup
    { {<<0, i>>, <<1, i>>, <<2, i>>} : i \in 0..2 } \cup
    { {<<0, 0>>, <<1, 1>>, <<2, 2>>}, {<<0, 2>>, <<1, 1>>, <<2, 0>>} }

Completed(board, s) ==
    \E l \in AllLines : \A c \in l : Cell(board, c[1], c[2]) = s

HasCompletedLine(board) == \E s \in Player : Completed(board, s)

OtherPlayer(p) == CHOOSE q \in Player : q # p

\* The selection being handled is a space whose cell is already claimed.
OccupiedRequest ==
    /\ pc = "resumed"
    /\ state.tag = "placing"
    /\ at.kind = "int"
    /\ at.val \in 1..9
    /\ Cell(TheBoard, (at.val - 1) \div 3, (at.val - 1) % 3) # Null

\* The line being handled reads as an integer outside 1..9.
OutOfRangeRequest ==
    /\ pc = "callback"
    /\ state.tag = "placing"
    /\ parseInt(line).kind = "int"
    /\ parseInt(line).val \notin 1..9

-----------------------------------------------------------------------------
(* Properties *)

\* C1: for every 3x3 board with a completed row, column or diagonal of one
\* symbol, the step from Evaluating{board, after} ends in Winner naming a
\* player, never in Placing or a draw.  (Stated under SpecEval.)
C1_CompletedLineGivesWinner ==
    [][(state.tag = "evaluating" /\ HasCompletedLine(TheBoard))
          => (state'.tag = "winner" /\ state'.won \in Player)]_vars

\* C2: in a game played from Initializing, a step from Evaluating{board,
\* after: p} to Winner with a player as result names p, the last mover.
C2_WinnerIsLastMover ==
    [][(state.tag = "evaluating" /\ state'.tag = "winner" /\ state'.won \in Player)
          => state'.won = state.after]_vars

\* C3: the players of successive Placing states alternate X, O, X, O, ...:
\* Initializing is left for Placing(X); a Placing state is only left for
\* Evaluating with `after` its player, and while it lasts its player stays;
\* Evaluating is only left for Winner or Placing of the opponent of `after`.
C3_TurnAlternation ==
    [][ /\ state.tag = "initializing" /\ state' # state
            => state'.tag = "placing" /\ state'.player = "X"
        /\ state.tag = "placing" /\ state' # state
            => state'.tag = "evaluating" /\ state'.after = state.player
        /\ state.tag = "evaluating" /\ state' # state
            => \/ state'.tag = "winner"
               \/ state'.tag = "placing" /\ state'.player = OtherPlayer(state.after)
      ]_vars

C3_Witness ==
    /\ state.tag = "placing"
    /\ state.player = "X"
    /\ Claimed(TheBoard) = 6
    /\ pc = "question"

\* C4: when a selection outside 1-9 or naming a claimed cell is rejected
\* during Placing, another move request to the same player follows: the
\* rejection leaves the state in Placing with a request outstanding.
C4_RejectedSelectionAsksAgain ==
    [][(OutOfRangeRequest \/ OccupiedRequest)
          => (pc' = "question" /\ state' = state)]_vars

\* C5: in Placing, a request for a space whose cell is claimed yields an
\* error value from updateBoard and changes neither the state nor any cell;
\* the machine does not move to Evaluating.
C5_OccupiedSelectionRejected ==
    [][OccupiedRequest
          => /\ updateBoard(state.player, at, state.on, heap).error
             /\ state' = state
             /\ heap' = heap
             /\ stderr' = Append(stderr, OccupiedMessage)]_vars

C5_Witness ==
    /\ state.tag = "placing"
    /\ state.player = "X"
    /\ Cell(TheBoard, 1, 1) = "O"
    /\ pc = "question"
    /\ stderr # <<>>
    /\ stderr[Len(stderr)] = OccupiedMessage

\* C6: in Placing, a request for a space outside 1-9 (0, 10, -1) is reported
\* as an out-of-range error and changes nothing: same state, no cell written.
C6_OutOfRangeSelectionRejected ==
    [][OutOfRangeRequest
          => /\ stderr' = Append(stderr, RangeMessage)
             /\ state' = state
             /\ heap' = heap]_vars

C6_Witness ==
    /\ state.tag = "placing"
    /\ Claimed(TheBoard) = 3
    /\ pc = "hung"
    /\ stderr # <<>>
    /\ stderr[Len(stderr)] = RangeMessage

\* C7: a cell that holds a symbol holds the same symbol in every later
\* state of the game: no step overwrites it or empties it.
C7_ClaimedCellsKeepTheirSymbol ==
    [][(state.tag # "initializing")
          => \A y \in 0..2, x \in 0..2 :
                Cell(TheBoard, y, x) # Null
                   => Cell(TheBoard', y, x) = Cell(TheBoard, y, x)]_vars

C7_Witness ==
    /\ state.tag = "evaluating"
    /\ Claimed(TheBoard) = 9
    /\ Len(stderr) = MaxErrors
    /\ \A i \in 1..Len(stderr) : stderr[i] = OccupiedMessage

\* C8: for every board with fewer than 9 claimed cells and no completed line
\* and either mover p, the step from Evaluating{board, after: p} yields
\* Placing{opponent of p, board}, never Winner.  (Stated under SpecEval.)
C8_NoLineNotFullContinues ==
    [][(state.tag = "evaluating" /\ Claimed(TheBoard) < 9 /\ ~HasCompletedLine(TheBoard))
          => /\ state' = Placing(OtherPlayer(state.after), state.board)
             /\ heap' = heap]_vars

C8_Witness ==
    /\ state.tag = "placing"
    /\ state.player = "O"
    /\ Claimed(TheBoard) = 8
    /\ ~HasCompletedLine(TheBoard)

\* C9: for every full board with no completed line, the step from Evaluating
\* yields Winner with the draw result, never a player.  (Stated under SpecEval.)
C9_FullNoLineIsDraw ==
    [][(state.tag = "evaluating" /\ Claimed(TheBoard) = 9 /\ ~HasCompletedLine(TheBoard))
          => /\ state' = WinnerState(Draw, state.board)
             /\ heap' = heap]_vars

\* The board of the play X:1,5,6,7,8 / O:2,3,4,9.
Scenario2Board ==
    << <<"X", "O", "O">>,
       <<"O", "X", "X">>,
       <<"X", "X", "O">> >>

C9_Witness ==
    /\ state.tag = "winner"
    /\ state.won = Draw
    /\ TheBoard = Scenario2Board

\* C10: one invocation of transition() on Initializing ends in
\* Placing{X, empty board} and has returned without issuing a move request.
C10_InitializingStepConsumesNoInput ==
    [][state.tag = "initializing"
          => /\ state'.tag = "placing"
             /\ state'.player = "X"
             /\ heap'[state'.on] = newBoard
             /\ pc' = "driver"]_vars

\* The step in which a selection is accepted and written.
AcceptedSelection ==
    /\ pc = "resumed"
    /\ state.tag = "placing"
    /\ ~updateBoard(state.player, at, state.on, heap).threw
    /\ ~updateBoard(state.player, at, state.on, heap).error

\* C11: a successful updateBoard(symbol, space, board) leaves the board it
\* was given as it was: after the move the board the Placing state held still
\* has the target cell empty, and the Evaluating state carries another board.
C11_UpdateLeavesGivenBoard ==
    [][AcceptedSelection
          => /\ heap'[state.on] = heap[state.on]
             /\ state'.tag = "evaluating"
             /\ state'.board # state.on]_vars

\* C12: Winner is absorbing: from a Winner state no step changes the state,
\* writes a cell, issues a move request or goes back to Initializing or Placing.
C12_WinnerIsAbsorbing ==
    [][state.tag = "winner"
          => /\ state' = state
             /\ heap' = heap
             /\ pc' \in {"driver", "exited"}
             /\ line' = line
             /\ at' = at]_vars

C12_Witness ==
    /\ state.tag = "winner"
    /\ pc = "exited"
    /\ Claimed(TheBoard) = 7

\* What the outcome line of a result is.
OutcomeLine(result) ==
    CASE result = "X" -> "Player 1 wins!"
      [] result = "O" -> "Player 2 wins!"
      [] result = Draw -> "Draw! Nobody wins"

\* C13: the outcome is reported at most once, only in Winner, it is the line
\* of the Winner state's result and the process has then exited with status
\* 0; a game that has ended has reported exactly once.
C13_OutcomeReportedOnce ==
    /\ Len(reports) <= 1
    /\ reports # <<>>
          => /\ state.tag = "winner"
             /\ reports = <<OutcomeLine(state.won)>>
             /\ pc = "exited"
             /\ exitCode = <<0>>
    /\ pc = "exited"
          => /\ state.tag = "winner"
             /\ Len(reports) = 1
             /\ exitCode = <<0>>
    /\ (state.tag = "winner" /\ pc = "driver") => reports = <<>>

C13_Witness ==
    /\ pc = "exited"
    /\ state.tag = "winner"
    /\ state.won = "O"
    /\ reports = <<"Player 2 wins!">>
    /\ exitCode = <<0>>

\* A diagonal check that guards each diagonal by its own cells.
SymmetricDiagonal(board) ==
    IF Cell(board, 0, 0) # Null /\ Cell(board, 0, 0) = Cell(board, 1, 1)
          /\ Cell(board, 1, 1) = Cell(board, 2, 2)
    THEN Cell(board, 0, 0)
    ELSE IF Cell(board, 0, 2) # Null /\ Cell(board, 0, 2) = Cell(board, 1, 1)
               /\ Cell(board, 1, 1) = Cell(board, 2, 0)
    THEN Cell(board, 0, 2)
    ELSE Null

\* C14: on every board that reaches Evaluating in a game played from
\* Initializing, the diagonal check of the source gives the result of the
\* symmetric check.
C14_DiagonalGuardHarmless ==
    state.tag = "evaluating"
        => hasWinnerDiagonal(TheBoard) = SymmetricDiagonal(TheBoard)

\* The cells in which two boards differ.
Changed(b1, b2) ==
    {c \in (0..2) \X (0..2) : Cell(b1, c[1], c[2]) # Cell(b2, c[1], c[2])}

\* C15: the board of an Evaluating state has exactly one more claimed cell
\* than the board of the Placing turn before it: one cell changed, from empty
\* to the symbol of `after`, who is the player of that turn; the board stays
\* as it is through the Placing turn and into the Winner or Placing state
\* that follows Evaluating.
C15_OneNewCellPerTurn ==
    [][ /\ (state.tag = "placing" /\ state'.tag = "evaluating")
            => /\ Claimed(TheBoard') = Claimed(TheBoard) + 1
               /\ state'.after = state.player
               /\ \E c \in (0..2) \X (0..2) :
                     /\ Changed(TheBoard, TheBoard') = {c}
                     /\ Cell(TheBoard, c[1], c[2]) = Null
                     /\ Cell(TheBoard', c[1], c[2]) = state'.after
        /\ (state.tag = "placing" /\ state'.tag = "placing")
            => TheBoard' = TheBoard
        /\ state.tag = "evaluating"
            => TheBoard' = TheBoard
      ]_vars

C15_Witness ==
    /\ state.tag = "placing"
    /\ state.player = "O"
    /\ Claimed(TheBoard) = 5
    /\ stderr # <<>>

\* C16: a win takes precedence over a draw: for every full board with a
\* completed line, the step from Evaluating yields Winner with a player who
\* has a completed line on it, not the draw.  (Stated under SpecEval.)
C16_WinBeforeDraw ==
    [][(state.tag = "evaluating" /\ Claimed(TheBoard) = 9 /\ HasCompletedLine(TheBoard))
          => /\ state'.tag = "winner"
             /\ state'.won \in Player
             /\ Completed(TheBoard, state'.won)
             /\ state'.on = state.board
             /\ heap' = heap]_vars

\* The board of X:1,2,6,7 / O:4,5,8,9 after the ninth move X:3, which
\* completes the top row.
NinthMoveWinBoard ==
    << <<"X", "X", "X">>,
       <<"O", "O", "X">>,
       <<"X", "O", "O">> >>

C16_Witness ==
    /\ state.tag = "winner"
    /\ state.won = "X"
    /\ TheBoard = NinthMoveWinBoard

\* The number of scans that report a symbol on a board.
ScansReporting(board) ==
    Cardinality({k \in {"vert", "hori", "diag"} :
        CASE k = "vert" -> hasWinnerVertical(board) # Null
          [] k = "hori" -> hasWinnerHorizontal(board) # Null
          [] k = "diag" -> hasWinnerDiagonal(board) # Null})

\* The symbols the scans report on a board.
SymbolsReported(board) ==
    {hasWinnerVertical(board), hasWinnerHorizontal(board), hasWinnerDiagonal(board)}
        \ {Null}

\* C17, as claimed: on a board reached by valid play at most one of the
\* three scans reports a winner.
C17_AtMostOneScanReports ==
    state.tag = "evaluating" => ScansReporting(TheBoard) <= 1

\* C17, amended: on a board reached by valid play at most two of the three
\* scans report a winner, and those that do report the same symbol.
C17_ScansAgree ==
    state.tag = "evaluating"
        => /\ ScansReporting(TheBoard) <= 2
           /\ Cardinality(SymbolsReported(TheBoard)) <= 1

C17_Witness ==
    /\ state.tag = "evaluating"
    /\ hasWinnerVertical(TheBoard) = "X"
    /\ hasWinnerHorizontal(TheBoard) = "X"

\* A move request is outstanding while a cell is free: the game waits for
\* the player.
WaitingForPlayer ==
    /\ pc = "question"
    /\ state.tag = "placing"
    /\ Claimed(TheBoard) < 9

\* C18: if the players keep supplying valid selections (no request stays
\* unanswered forever while a cell is free), the game reaches Winner, and it
\* does so after at least 5 and at most 9 accepted moves; it does not stay
\* in Placing or Evaluating.  (Stated under SpecValid.)
C18_GameTerminates ==
    (<>[]WaitingForPlayer) \/ <>(state.tag = "winner" /\ Claimed(TheBoard) \in 5..9)

C18_Witness ==
    /\ state.tag = "winner"
    /\ Claimed(TheBoard) = 5
    /\ pc = "exited"

\* C19: in a Winner state a player as result has a completed line on the
\* board; the draw result has a full board with no completed line.
C19_ResultBackedByBoard ==
    state.tag = "winner"
        => /\ state.won \in Player => Completed(TheBoard, state.won)
           /\ state.won = Draw
                 => Claimed(TheBoard) = 9 /\ ~HasCompletedLine(TheBoard)

C19_Witness ==
    /\ state.tag = "winner"
    /\ state.won = "O"
    /\ Completed(TheBoard, "O")
    /\ Cell(TheBoard, 0, 2) = "O"
    /\ Cell(TheBoard, 1, 1) = "O"
    /\ Cell(TheBoard, 2, 0) = "O"

Count(board, s) ==
    Cardinality({c \in (0..2) \X (0..2) : Cell(board, c[1], c[2]) = s})

\* C20: the number of X cells minus the number of O cells is 0 or 1: 0 in
\* Placing{X} and in Evaluating{after: O}, 1 in Placing{O} and in
\* Evaluating{after: X}.
C20_CountsBalanced ==
    state.tag # "initializing"
        => LET diff == Count(TheBoard, "X") - Count(TheBoard, "O")
           IN  /\ diff \in {0, 1}
               /\ state.tag = "placing" => diff = (IF state.player = "X" THEN 0 ELSE 1)
               /\ state.tag = "evaluating" => diff = (IF state.after = "X" THEN 1 ELSE 0)

C20_Witness ==
    /\ state.tag = "evaluating"
    /\ state.after = "O"
    /\ Count(TheBoard, "X") = 4
    /\ Count(TheBoard, "O") = 4

====
